---------------------------- MODULE Spec2Model ----------------------------
(***************************************************************************)
(* Model of the SMA-crossover strategy and backtest engine of src/app.js:  *)
(* sma, generateSmaSignals, simulatePortfolio and computeEquityCurve.      *)
(*                                                                         *)
(* Numbers.  JavaScript numbers are modelled by exact rationals:           *)
(*   - a price of the series is an integer;                                *)
(*   - a moving average sum/window is the pair [num |-> sum, den |-> window]*)
(*     and is compared by cross-multiplication; null is the pair with      *)
(*     den = 0;                                                            *)
(*   - a rate (slippagePct, feePct) is k/RateDen, held as its numerator k; *)
(*   - money (cash, executed price, fee, totals) is held in units of       *)
(*     1/Scale, Scale = RateDen*RateDen, so that price*(1 +- slippage) and *)
(*     price*feePct are integers.                                          *)
(* Floating-point rounding is not modelled.                                *)
(* Array indices are the 0-based indices of the source; At(a, i) reads     *)
(* a[i].                                                                   *)
(***************************************************************************)
EXTENDS Integers, Sequences, FiniteSets, TLC

\* ---- bounds of the model ----
MaxLen == 4
MaxPrice == 2
MaxWindow == 3
MaxSignals == 3
MaxCash == 6
RateDen == 2

VARIABLES
  pc,            \* position in the run: which function is executing / done
  prices,        \* the price series (argument)
  labels,        \* the timestamp keys (argument)
  fast,          \* fast window (argument)
  slow,          \* slow window (argument)
  fastS,         \* generateSmaSignals: sma(prices, fast)
  slowS,         \* generateSmaSignals: sma(prices, slow)
  i,             \* loop index of the running loop
  signals,       \* generateSmaSignals: the list built / simulatePortfolio: its input
  startingCash,  \* simulatePortfolio argument (money units)
  slippagePct,   \* numerator of the slippage rate
  feePct,        \* numerator of the fee rate
  cash,          \* simulatePortfolio: let cash
  position,      \* simulatePortfolio: let position
  lastPrice,     \* simulatePortfolio: let lastPrice
  trades,        \* simulatePortfolio: const trades
  tradeIdx,      \* history: for each trade, the index k of the signal that made it
  finalPrice,    \* simulatePortfolio result
  portfolioValue,\* simulatePortfolio result
  equity,        \* computeEquityCurve: const equity
  curveCash,     \* computeEquityCurve: let cash
  curvePosition, \* computeEquityCurve: let position
  tradeIndex,    \* computeEquityCurve: let tradeIndex
  appliedAt,     \* history: for each trade, the loop index at which it was applied
  returns,       \* the handler's const returns = pctReturns(equity)
  portfolioCAGR, \* the handler's const portfolioCAGR = cagr(equity)
  portfolioSharpe, \* the handler's const portfolioSharpe = sharpe(returns)
  cache,         \* server.js: const cache = {} (the in-memory store)
  now,           \* server.js: the clock read by Date.now(), in milliseconds
  calls          \* server.js: the calls of fetchWithCache made so far, each at its await

vars == <<pc, prices, labels, fast, slow, fastS, slowS, i, signals, startingCash,
          slippagePct, feePct, cash, position, lastPrice, trades, tradeIdx,
          finalPrice, portfolioValue, equity, curveCash, curvePosition,
          tradeIndex, appliedAt, returns, portfolioCAGR, portfolioSharpe,
          cache, now, calls>>

smaVars == <<fastS, slowS>>
simVars == <<cash, position, lastPrice, trades, tradeIdx, finalPrice, portfolioValue>>
curveVars == <<equity, curveCash, curvePosition, tradeIndex, appliedAt>>
argVars == <<prices, labels, fast, slow, startingCash, slippagePct, feePct>>
statVars == <<returns, portfolioCAGR, portfolioSharpe>>
cacheVars == <<cache, now, calls>>
restVars == <<statVars, cacheVars>>

\* ---- helpers for arrays and numbers ----
At(a, j) == a[j + 1]
Length(a) == Len(a)
SeqsUpTo(S, n) == UNION {[1..k -> S] : k \in 0..n}

\* null as stored in an sma output (line 102)
NULL == [num |-> 0, den |-> 0]
\* sum / window (line 101)
Div(sum, window) == [num |-> sum, den |-> window]
\* JavaScript truthiness of an sma element: null and 0 are falsy (line 113)
Truthy(x) == x # NULL /\ x.num # 0
\* comparisons of two non-null averages (lines 114, 116)
Le(x, y) == x.num * y.den <= y.num * x.den
Lt(x, y) == x.num * y.den < y.num * x.den
Ge(x, y) == Le(y, x)
Gt(x, y) == Lt(y, x)

\* ---- sma (lines 95-105) ----
RECURSIVE RunningSumOffByOne(_, _, _)
RunningSumOffByOne(ps, window, j) ==
  IF j < 0 THEN 0
  ELSE LET added == RunningSumOffByOne(ps, window, j - 1) + At(ps, j)
       IN IF j > window THEN added - At(ps, j - window) ELSE added

\* the value of sum after the loop body's lines 99-100 have run for index j
RECURSIVE RunningSum(_, _, _)
RunningSum(ps, window, j) ==
  IF j < 0 THEN 0
  ELSE LET added == RunningSum(ps, window, j - 1) + At(ps, j)
       IN IF j >= window THEN added - At(ps, j - window) ELSE added

sma(ps, window) ==
  [k \in 1..Len(ps) |->
     LET j == k - 1
     IN IF j >= window - 1 THEN Div(RunningSum(ps, window, j), window) ELSE NULL]

\* ---- generateSmaSignals (lines 108-122) ----
Signal(type, idx) ==
  [type |-> type, idx |-> idx, price |-> At(prices, idx), date |-> At(labels, idx)]

\* what one iteration of the loop (lines 113-119) pushes for index j
SignalsAtBothPushed(j) ==
  IF Truthy(At(fastS, j-1)) /\ Truthy(At(slowS, j-1)) /\ Truthy(At(fastS, j)) /\ Truthy(At(slowS, j))
  THEN (IF Le(At(fastS, j-1), At(slowS, j-1)) /\ Gt(At(fastS, j), At(slowS, j))
        THEN <<Signal("buy", j)>> ELSE <<>>)
       \o (IF Le(At(fastS, j-1), At(slowS, j-1)) /\ Gt(At(fastS, j), At(slowS, j))
           THEN <<Signal("sell", j)>> ELSE <<>>)
  ELSE <<>>

SignalsAt(j) ==
  IF Truthy(At(fastS, j-1)) /\ Truthy(At(slowS, j-1)) /\ Truthy(At(fastS, j)) /\ Truthy(At(slowS, j))
  THEN IF Le(At(fastS, j-1), At(slowS, j-1)) /\ Gt(At(fastS, j), At(slowS, j))
       THEN <<Signal("buy", j)>>
       ELSE IF Ge(At(fastS, j-1), At(slowS, j-1)) /\ Lt(At(fastS, j), At(slowS, j))
            THEN <<Signal("sell", j)>>
            ELSE <<>>
  ELSE <<>>

\* lines 109-111: the two averages and the empty list
ComputeSma ==
  /\ pc = "sma"
  /\ fastS' = sma(prices, fast)
  /\ slowS' = sma(prices, slow)
  /\ signals' = <<>>
  /\ i' = 1
  /\ pc' = "signals"
  /\ UNCHANGED <<argVars, restVars, simVars, curveVars>>

\* lines 112-120: one iteration of the loop
SignalStep ==
  /\ pc = "signals"
  /\ i < Length(prices)
  /\ signals' = signals \o SignalsAt(i)
  /\ i' = i + 1
  /\ UNCHANGED <<pc, argVars, restVars, smaVars, simVars, curveVars>>

\* line 121: return signals
SignalsReturn ==
  /\ pc = "signals"
  /\ ~(i < Length(prices))
  /\ pc' = "signalsDone"
  /\ UNCHANGED <<i, signals, argVars, restVars, smaVars, simVars, curveVars>>

\* ---- simulatePortfolio (lines 125-155) ----
\* money is held in units of 1/Scale
Scale == RateDen * RateDen
Money(p) == p * Scale
\* let lastPrice = null (line 128)
NoPrice == -1

\* A division by a price of 0 (line 136) leaves the integers: JavaScript's
\* Infinity, -Infinity and NaN are held as three reserved values beyond every
\* amount of the model, and the arithmetic below treats them as IEEE 754 does
Infinity == 2 ^ 30
NaN == Infinity + 1
IsInf(x) == x = Infinity \/ x = -Infinity
Sgn(x) == IF x > 0 THEN 1 ELSE IF x < 0 THEN -1 ELSE 0
Neg(x) == IF x = NaN THEN NaN ELSE -x
Plus(x, y) ==
  IF x = NaN \/ y = NaN THEN NaN
  ELSE IF IsInf(x) /\ IsInf(y) THEN (IF x = y THEN x ELSE NaN)
  ELSE IF IsInf(x) THEN x
  ELSE IF IsInf(y) THEN y
  ELSE x + y
Minus(x, y) == Plus(x, Neg(y))
Times(x, y) ==
  IF x = NaN \/ y = NaN THEN NaN
  ELSE IF IsInf(x) \/ IsInf(y)
       THEN (IF x = 0 \/ y = 0 THEN NaN ELSE Sgn(x) * Sgn(y) * Infinity)
  ELSE x * y
\* Math.floor(x / y)
FloorOver(x, y) ==
  IF x = NaN \/ y = NaN THEN NaN
  ELSE IF IsInf(x) THEN (IF IsInf(y) THEN NaN ELSE IF y < 0 THEN -x ELSE x)
  ELSE IF IsInf(y) THEN 0
  ELSE IF y = 0 THEN (IF x = 0 THEN NaN ELSE Sgn(x) * Infinity)
  ELSE x \div y
\* a comparison with NaN is false
Greater(x, y) == x # NaN /\ y # NaN /\ x > y
LessEq(x, y) == x # NaN /\ y # NaN /\ x <= y

\* line 131: s.price * (1 + (s.type === 'buy' ? slippagePct : -slippagePct))
ExecPrice(s) ==
  s.price * (RateDen + (IF s.type = "buy" THEN slippagePct ELSE -slippagePct)) * RateDen
\* line 132: price * feePct (price is a multiple of RateDen money units)
Fee(price) == (price * feePct) \div RateDen

\* line 133: cash > price
BuyGuard(c, price) == Greater(c, price)

\* line 135: Math.min(cash * 0.5, cash), held doubled to stay integral
TwiceSpendAllCash(c) == 2 * c
TwiceSpend(c) == IF c < 2 * c THEN c ELSE 2 * c

\* line 136: Math.floor((spend - fee) / price)
Qty(c, price, fee) == FloorOver(TwiceSpend(c) - 2 * fee, 2 * price)

\* line 137: if(qty <= 0) continue
QtySkipNegative(qty) == qty < 0
QtySkip(qty) == LessEq(qty, 0)

\* line 138: qty * price + fee
Cost(qty, price, fee) == Plus(Times(qty, price), fee)

\* line 142: position > 0
SellGuardAtLeast(pos) == pos >= 0
SellGuard(pos) == Greater(pos, 0)

\* line 143: const qty = position
SellQtyOne(pos) == 1
SellQty(pos) == pos

\* line 144: qty * price - fee
Proceeds(qty, price, fee) == Minus(Times(qty, price), fee)

Trade(type, s, price, qty, fee, c, pos) ==
  [type |-> type, date |-> s.date, price |-> price, qty |-> qty, fee |-> fee,
   cash |-> c, position |-> pos]

\* lines 133-141 and 149: the buy branch taken, a trade recorded
SimBuy(s) ==
  LET price == ExecPrice(s)
      fee == Fee(price)
      qty == Qty(cash, price, fee)
  IN /\ s.type = "buy" /\ BuyGuard(cash, price)
     /\ ~QtySkip(qty)
     /\ cash' = Minus(cash, Cost(qty, price, fee))
     /\ position' = Plus(position, qty)
     /\ trades' = Append(trades, Trade("buy", s, price, qty, fee, cash', position'))
     /\ tradeIdx' = Append(tradeIdx, s.idx)
     /\ lastPrice' = price

\* lines 133-137: the buy branch taken, continue on qty <= 0 (line 149 not reached)
SimBuyContinue(s) ==
  LET price == ExecPrice(s)
      fee == Fee(price)
      qty == Qty(cash, price, fee)
  IN /\ s.type = "buy" /\ BuyGuard(cash, price)
     /\ QtySkip(qty)
     /\ UNCHANGED <<cash, position, trades, tradeIdx, lastPrice>>

\* lines 142-149: the sell branch taken
SimSell(s) ==
  LET price == ExecPrice(s)
      fee == Fee(price)
      qty == SellQty(position)
  IN /\ ~(s.type = "buy" /\ BuyGuard(cash, price))
     /\ s.type = "sell" /\ SellGuard(position)
     /\ cash' = Plus(cash, Proceeds(qty, price, fee))
     /\ position' = Minus(position, qty)
     /\ trades' = Append(trades, Trade("sell", s, price, qty, fee, cash', position'))
     /\ tradeIdx' = Append(tradeIdx, s.idx)
     /\ lastPrice' = price

\* lines 133, 142, 149: neither branch taken
SimNoBranch(s) ==
  LET price == ExecPrice(s)
  IN /\ ~(s.type = "buy" /\ BuyGuard(cash, price))
     /\ ~(s.type = "sell" /\ SellGuard(position))
     /\ lastPrice' = price
     /\ UNCHANGED <<cash, position, trades, tradeIdx>>

\* the signals a caller can hand to simulatePortfolio; idx and date are the
\* signal's place in the list
SignalSet(k) ==
  {[type |-> t, idx |-> k, price |-> p, date |-> k] : t \in {"buy", "sell"}, p \in 1..MaxPrice}

\* for(const s of signals), line 130, over a list handed over one signal at a
\* time: s is the next element
Fed(s) ==
  /\ pc = "simulate"
  /\ Len(signals) < MaxSignals
  /\ signals' = Append(signals, s)
  /\ i' = i + 1
  /\ UNCHANGED <<pc, argVars, restVars, smaVars, finalPrice, portfolioValue, curveVars>>

\* one iteration of the loop, lines 130-150, by the branch it takes
FedBuy == \E s \in SignalSet(i) : Fed(s) /\ SimBuy(s)
FedBuyContinue == \E s \in SignalSet(i) : Fed(s) /\ SimBuyContinue(s)
FedSell == \E s \in SignalSet(i) : Fed(s) /\ SimSell(s)
FedNoBranch == \E s \in SignalSet(i) : Fed(s) /\ SimNoBranch(s)

\* line 152: prices[prices.length-1] || lastPrice || 0
FinalPrice ==
  IF Length(prices) > 0 /\ At(prices, Length(prices) - 1) # 0
  THEN Money(At(prices, Length(prices) - 1))
  ELSE IF lastPrice # NoPrice /\ lastPrice # 0 THEN lastPrice ELSE 0

\* lines 152-154: the end of the list is reached
SimReturn ==
  /\ pc = "simulate"
  /\ finalPrice' = FinalPrice
  /\ portfolioValue' = Plus(cash, Times(position, finalPrice'))
  /\ pc' = "simulateDone"
  /\ UNCHANGED <<i, signals, argVars, restVars, smaVars, cash, position, lastPrice, trades,
                 tradeIdx, curveVars>>

\* ---- the run of the page's handler (lines 272-280) ----
\* line 273: simulatePortfolio is called with the signals generated;
\* lines 126-129 initialise its ledger
SimCall ==
  /\ pc = "signalsDone"
  /\ cash' = startingCash
  /\ position' = 0
  /\ lastPrice' = NoPrice
  /\ trades' = <<>>
  /\ tradeIdx' = <<>>
  /\ i' = 0
  /\ pc' = "simulate"
  /\ UNCHANGED <<signals, argVars, restVars, smaVars, finalPrice, portfolioValue, curveVars>>

\* for(const s of signals), line 130, over the generated list: the next
\* element is signals[i]
Listed ==
  /\ pc = "simulate"
  /\ i < Length(signals)
  /\ i' = i + 1
  /\ UNCHANGED <<pc, signals, argVars, restVars, smaVars, finalPrice, portfolioValue, curveVars>>

ListBuy == Listed /\ SimBuy(At(signals, i))
ListBuyContinue == Listed /\ SimBuyContinue(At(signals, i))
ListSell == Listed /\ SimSell(At(signals, i))
ListNoBranch == Listed /\ SimNoBranch(At(signals, i))
ListReturn == ~(i < Length(signals)) /\ SimReturn

\* ---- computeEquityCurve (lines 160-184) ----
\* history value: the trade was applied at no index
NotApplied == -1

\* lines 163-167: the locals of computeEquityCurve, called at line 280 with
\* portfolio.trades and portfolio.startingCash
CurveCall ==
  /\ pc = "simulateDone"
  /\ equity' = <<>>
  /\ curveCash' = startingCash
  /\ curvePosition' = 0
  /\ tradeIndex' = 0
  /\ appliedAt' = [k \in 1..Len(trades) |-> NotApplied]
  /\ i' = 0
  /\ pc' = "curve"
  /\ UNCHANGED <<signals, argVars, restVars, smaVars, simVars>>

\* line 170: how many trades from index k on the while loop applies for date
RECURSIVE MatchCount(_, _)
MatchCount(k, date) ==
  IF k < Length(trades) /\ At(trades, k).date = date
  THEN 1 + MatchCount(k + 1, date)
  ELSE 0

\* line 179: prices[i] || prices[prices.length-1] || 0
CurvePriceLast(j) ==
  IF At(prices, Length(prices) - 1) # 0 THEN At(prices, Length(prices) - 1)
  ELSE IF At(prices, j) # 0 THEN At(prices, j) ELSE 0
CurvePrice(j) ==
  IF At(prices, j) # 0 THEN At(prices, j)
  ELSE IF At(prices, Length(prices) - 1) # 0 THEN At(prices, Length(prices) - 1) ELSE 0

\* lines 167-182: one iteration of the loop over labels, its while loop included
CurveStep ==
  /\ pc = "curve"
  /\ i < Length(labels)
  /\ LET date == At(labels, i)
         n == MatchCount(tradeIndex, date)
         t == At(trades, tradeIndex + n - 1)
     IN /\ tradeIndex' = tradeIndex + n
        /\ curveCash' = IF n > 0 THEN t.cash ELSE curveCash
        /\ curvePosition' = IF n > 0 THEN t.position ELSE curvePosition
        /\ appliedAt' = [k \in 1..Len(trades) |->
                           IF k - 1 >= tradeIndex /\ k - 1 < tradeIndex + n
                           THEN i ELSE appliedAt[k]]
        /\ equity' = Append(equity, [date |-> date,
                                     total |-> Plus(curveCash', Times(curvePosition', Money(CurvePrice(i))))])
  /\ i' = i + 1
  /\ UNCHANGED <<pc, signals, argVars, restVars, smaVars, simVars>>

\* line 183: return equity
CurveReturn ==
  /\ pc = "curve"
  /\ ~(i < Length(labels))
  /\ pc' = "curveDone"
  /\ UNCHANGED <<i, signals, argVars, restVars, smaVars, simVars, curveVars>>

\* ---- pctReturns, cagr, sharpe ----
\* A quotient a / b is the pair [num |-> a, den |-> b]; JavaScript's division by
\* zero gives NaN (0 / 0) or an infinity (a / 0), the pairs with den = 0.
\* Math.pow and Math.sqrt have irrational values, so a result of cagr or sharpe
\* is held by its kind: "0" (exactly zero), "number" (another finite number),
\* "Infinity" (either sign) or "NaN".
Finite(x) == x.den # 0
IsNaN(x) == x.den = 0 /\ x.num = 0
Minus1(x) == [num |-> x.num - x.den, den |-> x.den]
NotComputed == "none"

\* x / y of two totals
Over(x, y) ==
  IF x = NaN \/ y = NaN \/ (IsInf(x) /\ IsInf(y)) THEN NULL
  ELSE IF IsInf(x) THEN Div(Sgn(x) * (IF y < 0 THEN -1 ELSE 1), 0)
  ELSE IF IsInf(y) THEN Div(0, 1)
  ELSE Div(x, y)

pctReturns(eq) ==
  [k \in 1..(Len(eq) - 1) |-> Minus1(Over(eq[k + 1].total, eq[k].total))]

TradingDays == 252

MaxQ(x, y) == IF Lt(x, y) THEN y ELSE x

\* equity.length < 2
TooShort(eq) == Length(eq) < 2

\* Math.pow(q, 1 / years) - 1 for years > 0
PowMinus1(q, years) ==
  IF IsNaN(q) THEN "NaN"
  ELSE IF ~Finite(q) THEN "Infinity"
  ELSE IF q.num * q.den < 0 /\ years.den % years.num # 0 THEN "NaN"
  ELSE IF q.num = q.den THEN "0"
  ELSE "number"

cagr(eq) ==
  IF TooShort(eq) THEN "0"
  ELSE LET start == At(eq, 0).total
           end == At(eq, Length(eq) - 1).total
           periods == Length(eq)
           years == MaxQ(Div(periods, TradingDays), Div(1, TradingDays))
       IN PowMinus1(Over(end, start), years)

RECURSIVE GCD(_, _)
GCD(a, b) == IF b = 0 THEN (IF a < 0 THEN -a ELSE a) ELSE GCD(b, a % b)

LCM(a, b) == (a \div GCD(a, b)) * b

\* returns.reduce((a,b)=>a+b, 0), over the common denominator of the returns
RECURSIVE CommonDen(_, _)
CommonDen(rs, k) == IF k = 0 THEN 1 ELSE LCM(CommonDen(rs, k - 1), rs[k].den)

RECURSIVE SumNum(_, _, _)
SumNum(rs, den, k) ==
  IF k = 0 THEN 0 ELSE SumNum(rs, den, k - 1) + rs[k].num * (den \div rs[k].den)

Sum(rs) ==
  IF \A k \in 1..Len(rs) : Finite(rs[k])
  THEN LET den == CommonDen(rs, Len(rs)) IN Div(SumNum(rs, den, Len(rs)), den)
  ELSE NULL

\* sum / returns.length
Mean(rs) == LET sum == Sum(rs) IN Div(sum.num, sum.den * Length(rs))

\* r - avg, over the denominator of avg (a multiple of the denominator of r)
Deviation(r, avg) ==
  [num |-> r.num * (avg.den \div r.den) - avg.num, den |-> avg.den]

\* Math.sqrt(sum of Math.pow(r - avg, 2) / returns.length): a sum of squares is
\* zero exactly when every r - avg is zero
Std(rs, avg) ==
  IF ~Finite(avg) THEN "NaN"
  ELSE IF \A k \in 1..Len(rs) : Deviation(rs[k], avg).num = 0 THEN "0"
  ELSE "number"

\* returns.length === 0
ReturnsEmptyNever(rs) == FALSE
ReturnsEmpty(rs) == Length(rs) = 0

\* std === 0
StdIsZero(std) == std = "0"

\* (avg - rf) / std * annFactor with rf = 0
Annualised(avg, std) ==
  IF ~Finite(avg) \/ std = "NaN" THEN "NaN"
  ELSE IF std = "0" THEN (IF avg.num = 0 THEN "NaN" ELSE "Infinity")
  ELSE IF avg.num = 0 THEN "0"
  ELSE "number"

sharpe(rs) ==
  IF ReturnsEmpty(rs) THEN "0"
  ELSE LET avg == Mean(rs)
           std == Std(rs, avg)
       IN IF StdIsZero(std) THEN "0" ELSE Annualised(avg, std)

\* the handler's three statements after computeEquityCurve
Metrics ==
  /\ pc = "curveDone"
  /\ returns' = pctReturns(equity)
  /\ portfolioCAGR' = cagr(equity)
  /\ portfolioSharpe' = sharpe(returns')
  /\ pc' = "metricsDone"
  /\ UNCHANGED <<i, signals, argVars, smaVars, simVars, curveVars, cacheVars>>


\* ---- server.js: the in-memory cache and fetchWithCache ----
MaxCalls == 2
MaxTtl == 2
MaxNow == 3

\* the cache keys the endpoints build, two of them
CacheKeys == {"finnhub:quote:X", "news:newsapi:finance"}

\* what r.json() can give, as JSON text: null, 0 and the empty string are
\* falsy in JavaScript, an object is truthy
JsonValues == {"null", "0", "{}"}
JsNull == "null"
TruthyJson(v) == v \notin {"null", "false", "0", "\"\""}

MsPerSec == 1000

\* const cache = {} (line 36), Date.now() at start, no call made
InitServer == cache = <<>> /\ now = 0 /\ calls = <<>>

\* getCache (lines 30-33): the value it returns and the store it leaves
getCache(key) ==
  IF key \notin DOMAIN cache THEN JsNull
  ELSE IF now > cache[key].expires THEN JsNull
  ELSE cache[key].data

CacheAfterGet(key) ==
  IF key \in DOMAIN cache /\ now > cache[key].expires
  THEN [k \in DOMAIN cache \ {key} |-> cache[k]]
  ELSE cache

\* setCache (line 23)
setCache(key, data, ttlSec) ==
  [k \in DOMAIN cache \cup {key} |->
     IF k = key THEN [expires |-> now + ttlSec * MsPerSec, data |-> data] ELSE cache[k]]

appVars == <<pc, i, signals, argVars, smaVars, simVars, curveVars, statVars>>

Call(key, ttl, state, result) ==
  [key |-> key, ttl |-> ttl, state |-> state, result |-> result]

\* fetchWithCache, lines 46-47: getCache gives a truthy value, which is returned.
\* The continuation of await getCache(key) is a microtask: it runs before any
\* other call's I/O completes, so lines 46-48 are one step
CallReturnsCached ==
  /\ Len(calls) < MaxCalls
  /\ \E key \in CacheKeys, ttl \in 1..MaxTtl :
       LET cached == getCache(key)
       IN /\ TruthyJson(cached)
          /\ cache' = CacheAfterGet(key)
          /\ calls' = Append(calls, Call(key, ttl, "returned", cached))
  /\ UNCHANGED <<now, appVars>>

\* fetchWithCache, lines 46-48: getCache gives a falsy value, fetch(url) is issued
CallFetches ==
  /\ Len(calls) < MaxCalls
  /\ \E key \in CacheKeys, ttl \in 1..MaxTtl :
       LET cached == getCache(key)
       IN /\ ~TruthyJson(cached)
          /\ cache' = CacheAfterGet(key)
          /\ calls' = Append(calls, Call(key, ttl, "fetch", JsNull))
  /\ UNCHANGED <<now, appVars>>

\* fetchWithCache, lines 48-51: the upstream has answered and its body is read;
\* the value is stored and returned
FetchResponds ==
  /\ \E c \in 1..Len(calls), j \in JsonValues :
       /\ calls[c].state = "fetch"
       /\ cache' = setCache(calls[c].key, j, calls[c].ttl)
       /\ calls' = [calls EXCEPT ![c] = Call(calls[c].key, calls[c].ttl, "returned", j)]
  /\ UNCHANGED <<now, appVars>>

\* fetchWithCache, lines 48-49: fetch or r.json() rejects, the call throws
FetchThrows ==
  /\ \E c \in 1..Len(calls) :
       /\ calls[c].state = "fetch"
       /\ calls' = [calls EXCEPT ![c] = Call(calls[c].key, calls[c].ttl, "threw", JsNull)]
  /\ UNCHANGED <<cache, now, appVars>>

\* the clock moves on by a second
Tick ==
  /\ now < MaxNow * MsPerSec
  /\ now' = now + MsPerSec
  /\ UNCHANGED <<cache, calls, appVars>>

\* ---- specifications ----
InitRest ==
  /\ fastS = <<>> /\ slowS = <<>> /\ i = 0 /\ signals = <<>>
  /\ cash = 0 /\ position = 0 /\ lastPrice = NoPrice /\ trades = <<>> /\ tradeIdx = <<>>
  /\ finalPrice = 0 /\ portfolioValue = 0
  /\ equity = <<>> /\ curveCash = 0 /\ curvePosition = 0 /\ tradeIndex = 0
  /\ appliedAt = <<>>
  /\ returns = <<>> /\ portfolioCAGR = NotComputed /\ portfolioSharpe = NotComputed
  /\ InitServer

InitSma ==
  /\ pc = "sma"
  /\ prices \in SeqsUpTo(0..MaxPrice, MaxLen)
  /\ labels = [k \in 1..Len(prices) |-> k - 1]
  /\ fast \in 1..MaxWindow
  /\ slow \in 1..MaxWindow
  /\ startingCash = 0 /\ slippagePct = 0 /\ feePct = 0
  /\ InitRest

NextSma == ComputeSma \/ SignalStep \/ SignalsReturn

SpecSma == InitSma /\ [][NextSma]_vars

\* simulatePortfolio alone, entered at line 130 with any arguments: a price
\* series (only its length and last element are read), starting cash > 0 and
\* rates in [0,1)
InitSim ==
  /\ pc = "simulate"
  /\ prices \in SeqsUpTo(1..MaxPrice, 1)
  /\ labels = [k \in 1..Len(prices) |-> k - 1]
  /\ fast = 1 /\ slow = 2
  /\ startingCash \in {Money(c) : c \in 1..MaxCash}
  /\ slippagePct \in 0..(RateDen - 1)
  /\ feePct \in 0..(RateDen - 1)
  /\ fastS = <<>> /\ slowS = <<>> /\ i = 0 /\ signals = <<>>
  /\ cash = startingCash /\ position = 0 /\ lastPrice = NoPrice
  /\ trades = <<>> /\ tradeIdx = <<>>
  /\ finalPrice = 0 /\ portfolioValue = 0
  /\ equity = <<>> /\ curveCash = 0 /\ curvePosition = 0 /\ tradeIndex = 0
  /\ appliedAt = <<>>
  /\ returns = <<>> /\ portfolioCAGR = NotComputed /\ portfolioSharpe = NotComputed
  /\ InitServer

NextSim == FedBuy \/ FedBuyContinue \/ FedSell \/ FedNoBranch \/ SimReturn

SpecSim == InitSim /\ [][NextSim]_vars

\* the handler's run: generateSmaSignals, simulatePortfolio on its signals,
\* computeEquityCurve on its trades.  The keys ascend; a key may repeat the
\* one before it (a provider's normalisation that maps two points to one key)
Labellings(n) ==
  {lab \in [1..n -> 0..(n - 1)] :
     /\ n > 0 => lab[1] = 0
     /\ \A k \in 2..n : lab[k] = lab[k - 1] \/ lab[k] = lab[k - 1] + 1}

InitPipe ==
  /\ pc = "sma"
  /\ prices \in SeqsUpTo(1..MaxPrice, MaxLen)
  /\ labels \in Labellings(Len(prices))
  /\ fast \in 1..MaxWindow
  /\ slow \in 1..MaxWindow
  /\ fast < slow
  /\ startingCash = Money(MaxCash)
  /\ slippagePct \in 0..(RateDen - 1)
  /\ feePct \in 0..(RateDen - 1)
  /\ InitRest

NextPipe ==
  \/ ComputeSma \/ SignalStep \/ SignalsReturn
  \/ SimCall \/ ListBuy \/ ListBuyContinue \/ ListSell \/ ListNoBranch \/ ListReturn
  \/ CurveCall \/ CurveStep \/ CurveReturn
  \/ Metrics

SpecPipe == InitPipe /\ [][NextPipe]_vars

\* the handler's run over a series that may hold a price of 0 (the fallbacks
\* of lines 152 and 179 expect one), under keys that are all different
InitPipeAnyPrice ==
  /\ pc = "sma"
  /\ prices \in SeqsUpTo(0..MaxPrice, MaxLen)
  /\ labels = [k \in 1..Len(prices) |-> k - 1]
  /\ fast \in 1..MaxWindow /\ slow \in 1..MaxWindow /\ fast < slow
  /\ startingCash = Money(MaxCash)
  /\ slippagePct \in 0..(RateDen - 1)
  /\ feePct \in 0..(RateDen - 1)
  /\ InitRest

SpecPipeAnyPrice == InitPipeAnyPrice /\ [][NextPipe]_vars

\* the server with its in-memory cache: calls of fetchWithCache, upstream
\* answers and the clock, in any order
InitCache ==
  /\ pc = "server"
  /\ prices = <<>> /\ labels = <<>> /\ fast = 1 /\ slow = 2
  /\ startingCash = 0 /\ slippagePct = 0 /\ feePct = 0
  /\ InitRest

NextCache == CallReturnsCached \/ CallFetches \/ FetchResponds \/ FetchThrows \/ Tick

SpecCache == InitCache /\ [][NextCache]_vars

\* ======================= properties of sma / generateSmaSignals ==========

\* prices[lo] + ... + prices[hi], summed afresh
RECURSIVE WindowSum(_, _, _)
WindowSum(ps, lo, hi) == IF hi < lo THEN 0 ELSE At(ps, hi) + WindowSum(ps, lo, hi - 1)

\* out is a sequence of length N, null below index W-1 and the mean of the
\* W most recent prices from there on
IsWindowMean(out, ps, W) ==
  /\ Len(out) = Len(ps)
  /\ \A j \in 0..(Len(ps) - 1) :
       IF j < W - 1 THEN At(out, j) = NULL
       ELSE /\ At(out, j).den = W
            /\ At(out, j).num = WindowSum(ps, j - W + 1, j)

\* C9: for 1 <= W <= N, sma(prices, W) has length N, holds null at every
\* index i < W-1 and the arithmetic mean of prices[i-W+1..i] at every index
\* i >= W-1: the running sum equals the window summed afresh.
C9_SmaIsWindowMean ==
  pc # "sma" =>
    /\ (fast <= Len(prices) => IsWindowMean(fastS, prices, fast))
    /\ (slow <= Len(prices) => IsWindowMean(slowS, prices, slow))

\* a run where the window has slid (a price has left it) over unequal prices
C9_Witness ==
  /\ pc = "signals"
  /\ fast >= 2 /\ Len(prices) >= fast + 2
  /\ At(prices, 0) # At(prices, fast)
  /\ At(prices, 1) # At(prices, fast + 1)
  /\ At(fastS, Len(prices) - 1) # NULL

\* the averages as the claim states them
AvgDefined(W, j) == j >= 0 /\ j >= W - 1
Avg(W, j) == Div(WindowSum(prices, j - W + 1, j), W)
CrossUp(j) ==
  /\ AvgDefined(fast, j - 1) /\ AvgDefined(slow, j - 1)
  /\ Le(Avg(fast, j - 1), Avg(slow, j - 1)) /\ Gt(Avg(fast, j), Avg(slow, j))
CrossDown(j) ==
  /\ AvgDefined(fast, j - 1) /\ AvgDefined(slow, j - 1)
  /\ Ge(Avg(fast, j - 1), Avg(slow, j - 1)) /\ Lt(Avg(fast, j), Avg(slow, j))
Emitted == {<<signals[k].idx, signals[k].type>> : k \in 1..Len(signals)}

\* C4: a signal is emitted at index i (1 <= i <= N-1) exactly when both
\* averages are defined at i-1 and i and a crossover occurs (Buy iff
\* fast[i-1] <= slow[i-1] and fast[i] > slow[i], Sell iff fast[i-1] >=
\* slow[i-1] and fast[i] < slow[i]), also when an average's value is 0.
C4_SignalsExactlyAtCrossovers ==
  pc = "signalsDone" =>
    Emitted = {<<j, "buy">> : j \in {n \in 1..(Len(prices) - 1) : CrossUp(n)}}
              \cup {<<j, "sell">> : j \in {n \in 1..(Len(prices) - 1) : CrossDown(n)}}

\* C10: the signals have strictly increasing indices: index order, at most
\* one signal per index, never a Buy and a Sell at the same index.
C10_StrictlyIncreasingIdx ==
  \A a, b \in 1..Len(signals) : a < b => signals[a].idx < signals[b].idx

\* a finished run that emitted a Buy and a Sell
C10_Witness ==
  /\ pc = "signalsDone"
  /\ \E a, b \in 1..Len(signals) : signals[a].type = "buy" /\ signals[b].type = "sell"

\* ======================= properties of simulatePortfolio =================

\* the step is one iteration of the loop over the signals, on signal Cur
IsIteration == pc = "simulate" /\ Len(signals') = Len(signals) + 1
Cur == signals'[Len(signals')]
Newest == trades'[Len(trades')]
\* exactly one trade of the given type is appended by the step
Appended(type) ==
  /\ Len(trades') = Len(trades) + 1
  /\ SubSeq(trades', 1, Len(trades)) = trades
  /\ Newest.type = type

\* the quantities as the claims state them, in money units
StatedBuyPrice(s) == Money(s.price) + s.price * slippagePct * RateDen
StatedSellPrice(s) == Money(s.price) - s.price * slippagePct * RateDen
StatedFee(ep) == (ep * feePct) \div RateDen
\* floor((0.5*c - fee) / ep)
StatedQuantity(c, ep, fee) == (c - 2 * fee) \div (2 * ep)

\* C1: for every buy signal, with executedPrice = price*(1+slippage) and
\* fee = executedPrice*feeRate: no trade is recorded if cash <= executedPrice
\* or quantity = floor((0.5*cash - fee)/executedPrice) <= 0; otherwise exactly
\* one buy trade is appended, cash decreases by quantity*executedPrice + fee,
\* position increases by quantity and the trade records both after the update.
C1_BuyRule ==
  [][ (IsIteration /\ Cur.type = "buy") =>
        LET ep == StatedBuyPrice(Cur)
            fee == StatedFee(ep)
            q == StatedQuantity(cash, ep, fee)
        IN IF cash <= ep \/ q <= 0
           THEN trades' = trades
           ELSE /\ Appended("buy")
                /\ Newest.price = ep /\ Newest.fee = fee /\ Newest.qty = q
                /\ cash' = cash - (q * ep + fee)
                /\ position' = position + q
                /\ Newest.cash = cash' /\ Newest.position = position' ]_vars

\* a buy of two or more shares that paid a fee, and a buy signal that
\* recorded no trade
C1_Witness ==
  /\ \E k \in 1..Len(trades) :
       trades[k].type = "buy" /\ trades[k].qty >= 2 /\ trades[k].fee > 0
  /\ \E k \in 1..Len(signals) :
       signals[k].type = "buy" /\ \A n \in 1..Len(tradeIdx) : tradeIdx[n] # k - 1

C3_LedgerNonNegative ==
  /\ cash >= 0 /\ position \in Nat
  /\ \A k \in 1..Len(trades) : trades[k].cash >= 0 /\ trades[k].position \in Nat

\* a buy and a sale under a positive slippage and a positive fee rate
C3_Witness ==
  /\ slippagePct > 0 /\ feePct > 0
  /\ \E k \in 1..Len(trades) : trades[k].type = "sell"
  /\ cash < startingCash

\* the final price as the claim states it
StatedFinalPrice ==
  IF Len(prices) > 0 THEN Money(prices[Len(prices)])
  ELSE IF Len(trades) > 0 THEN trades[Len(trades)].price ELSE 0

\* C6: portfolioValue = finalCash + position*finalPrice, finalPrice being the
\* last price of a non-empty series and, for an empty series, the price of
\* the last executed trade (not of a skipped signal).
C6_ValueAtLastTradePrice ==
  pc = "simulateDone" => portfolioValue = cash + position * StatedFinalPrice

\* a signal the claim calls skipped
StatedSkip(s) ==
  \/ /\ s.type = "buy"
     /\ LET ep == StatedBuyPrice(s)
        IN cash <= ep \/ StatedQuantity(cash, ep, StatedFee(ep)) <= 0
  \/ s.type = "sell" /\ position = 0

\* C8: every signal yields at most one trade and the trade log is a filtered
\* subsequence of the signals (same order, no more trades than signals); a
\* skipped signal leaves cash, position and the log unchanged; a recorded
\* trade is never modified or removed.
C8_TradesFilterSignals ==
  [][ /\ Len(trades') <= Len(trades) + 1
      /\ SubSeq(trades', 1, Len(trades)) = trades
      /\ Len(trades') <= Len(signals')
      /\ Len(tradeIdx') = Len(trades')
      /\ \A k \in 1..Len(trades') :
           /\ tradeIdx'[k] \in 0..(Len(signals') - 1)
           /\ At(signals', tradeIdx'[k]).type = trades'[k].type
           /\ At(signals', tradeIdx'[k]).date = trades'[k].date
           /\ k > 1 => tradeIdx'[k - 1] < tradeIdx'[k]
      /\ (IsIteration /\ StatedSkip(Cur)) =>
           cash' = cash /\ position' = position /\ trades' = trades ]_vars

\* a run that skipped a sell for lack of a position, recorded a buy and
\* skipped the buy signal after it
C8_Witness ==
  /\ Len(signals) = 3 /\ Len(trades) = 1 /\ tradeIdx = <<1>>
  /\ signals[1].type = "sell" /\ signals[3].type = "buy"

\* ======================= properties of computeEquityCurve ================

UniqueLabels == \A a, b \in 1..Len(labels) : a # b => labels[a] # labels[b]

\* the simulator's ledger after it has processed every signal of index <= j:
\* the one recorded by the last trade made by such a signal, or the starting
\* ledger if there is none
TradesUpTo(j) == {k \in 1..Len(trades) : tradeIdx[k] <= j}
LastUpTo(j) == CHOOSE k \in TradesUpTo(j) : \A n \in TradesUpTo(j) : n <= k
LedgerCash(j) == IF TradesUpTo(j) = {} THEN startingCash ELSE trades[LastUpTo(j)].cash
LedgerPosition(j) == IF TradesUpTo(j) = {} THEN 0 ELSE trades[LastUpTo(j)].position

C7_TradeAppliedAtOwnIndex ==
  \A k \in 1..Len(appliedAt) : appliedAt[k] = NotApplied \/ appliedAt[k] = tradeIdx[k]

\* ---- C11: a one-point and an empty price series ----
MetricsDone == pc = "metricsDone"

\* C11: a run on a single-point series ends with no signals, no trades, an
\* equity curve of one point whose total is the starting cash, CAGR 0 and
\* Sharpe 0; a run on an empty series ends with an empty equity curve, CAGR 0
\* and Sharpe 0; neither run stops before the metrics are computed
C11_DegenerateSeries ==
  /\ Length(prices) <= 1 => MetricsDone \/ ENABLED NextPipe
  /\ MetricsDone /\ Length(prices) = 1 =>
       /\ signals = <<>> /\ trades = <<>>
       /\ Length(equity) = 1 /\ At(equity, 0).total = startingCash
       /\ portfolioCAGR = "0" /\ portfolioSharpe = "0"
  /\ MetricsDone /\ Length(prices) = 0 =>
       /\ equity = <<>>
       /\ portfolioCAGR = "0" /\ portfolioSharpe = "0"

\* a finished run on a single-point series
C11_Witness ==
  MetricsDone /\ Length(prices) = 1 /\ Length(equity) = 1 /\ returns = <<>>

\* ---- C12: no division by zero in the statistics ----
Eq(x, y) == x.num * y.den = y.num * x.den
\* finite returns that are all the same number
Identical(rs) == \A a, b \in 1..Len(rs) : Finite(rs[a]) /\ Finite(rs[b]) /\ Eq(rs[a], rs[b])
IsNumber(v) == v \in {"0", "number"}

\* C12: in a run with starting cash > 0, whatever the prices, no total of the
\* equity curve is 0; of a finished run the returns are all
\* finite, Sharpe is 0 when the returns are empty or all identical, CAGR is 0
\* when the curve has fewer than 2 points, and CAGR and Sharpe are neither NaN
\* nor infinite
C12_NoDivisionByZero ==
  /\ startingCash > 0
  /\ \A k \in 1..Len(equity) : equity[k].total # 0
  /\ MetricsDone =>
       /\ \A k \in 1..Len(returns) : Finite(returns[k])
       /\ Length(returns) = Length(equity) - (IF Length(equity) = 0 THEN 0 ELSE 1)
       /\ (returns = <<>> \/ Identical(returns) => portfolioSharpe = "0")
       /\ (Length(equity) < 2 => portfolioCAGR = "0")
       /\ IsNumber(portfolioCAGR) /\ IsNumber(portfolioSharpe)

\* ---- C13: windows with fast >= slow ----
\* C13: a call of the signal generator with fast >= slow does not return a
\* signal list
C13_InvalidWindowsRejected ==
  fast >= slow => pc # "signalsDone"

\* ---- C14: the in-memory cache under fetchWithCache ----
\* an entry is stored under the key and the clock is not past its expiry
Live(key) == key \in DOMAIN cache /\ now <= cache[key].expires
\* this step is a new call of fetchWithCache, run up to its return or its fetch
NewCall == Len(calls') = Len(calls) + 1
Began == calls'[Len(calls')]

\* C14: in every step of the server, a call gets a cached value only from an
\* entry not past its expiry; an entry past its expiry is deleted and the call
\* goes upstream; a call goes upstream only when no unexpired entry is stored
\* under its key, whatever value the entry holds, and otherwise reuses the
\* stored value and leaves the store alone; an answer is stored with the
\* expiry store time + TTL
C14_FetchOnlyWithoutLiveEntry ==
  [][ /\ NewCall =>
           LET c == Began
           IN /\ c.state \in {"returned", "fetch"}
              /\ c.state = "returned" => Live(c.key) /\ c.result = cache[c.key].data
              /\ c.key \in DOMAIN cache /\ ~Live(c.key) =>
                   c.key \notin DOMAIN cache' /\ c.state = "fetch"
              /\ c.state = "fetch" => ~Live(c.key)
              /\ Live(c.key) =>
                   c.state = "returned" /\ c.result = cache[c.key].data /\ cache' = cache
      /\ \A c \in 1..Len(calls) :
           calls[c].state = "fetch" /\ calls'[c].state = "returned" =>
             cache'[calls[c].key] =
               [expires |-> now + calls[c].ttl * MsPerSec, data |-> calls'[c].result]
    ]_vars

=============================================================================
